---- MODULE Spec2Model ----
(***************************************************************************)
(* A model of http-cache's SQLite cache manager (SqliteManager) and of the *)
(* reqwest middleware that drives it.                                      *)
(*                                                                         *)
(* The manager keeps one table, cache(id, req_key, store).  Every          *)
(* operation hands a closure to tokio_rusqlite's connection thread, which  *)
(* runs the closures one at a time in the order they were sent.  The       *)
(* callers are concurrent tasks.                                           *)
(***************************************************************************)
EXTENDS Naturals, Integers, Sequences, FiniteSets, TLC

VARIABLES
    table,      \* the rows of table cache: [id, req_key, store]
    sqlite_seq, \* AUTOINCREMENT: the largest id ever handed out
    queue,      \* closures sent to the connection thread, oldest first
    pc,         \* per task: where the task stands
    call,       \* per task: the operation it is in, with its arguments
    reply,      \* per task: what the connection thread answered
    ret,        \* per task: what the operation returned to its caller
    mode,       \* HttpCache.mode: the cache mode of the Cache instance
    now,        \* the clock the policies are evaluated against
    lastPut,    \* history: per key, the Store of the last write applied
    putLog      \* history: per key, the Stores of all writes applied

vars == <<table, sqlite_seq, queue, pc, call, reply, ret, mode, now,
          lastPut, putLog>>

(***************************************************************************)
(* Bounds                                                                  *)
(***************************************************************************)
\* The largest row id the model hands out: bounds the number of writes.
MaxId == 3
\* The last instant of the clock.
MaxTime == 1

Tasks == {"t1", "t2"}

(***************************************************************************)
(* Values                                                                  *)
(***************************************************************************)
Methods == {"GET", "POST"}
\* The (method, URL) pairs the manager is called with directly.
Targets == {<<"GET", "https://example.test/a">>,
            <<"POST", "https://example.test/b">>}
Urls == {"https://example.test/a", "https://example.test/b"}

\* The strings that occur in the model; a string is encoded by its index.
StrTab == <<"https://example.test/a", "https://example.test/b",
            "cache-control", "etag", "max-age=1", "no-store", "v1", "v2">>

HeaderNames == {"cache-control", "etag"}
HeaderValues == {"max-age=1", "no-store", "v1", "v2"}

\* http_cache::HttpVersion, in declaration order (bincode writes the index).
Versions == <<"HTTP/0.9", "HTTP/1.0", "HTTP/1.1", "HTTP/2.0", "HTTP/3.0">>

Range(f) == {f[i] : i \in DOMAIN f}

\* A key made of the URL alone.
KeyUrlOnly(method, url) == url

\* format!("{method}:{url}")
req_key(method, url) == method \o ":" \o url

Keys == {req_key(m, u) : m \in Methods, u \in Urls}

(***************************************************************************)
(* HttpResponse, CachePolicy and Store                                     *)
(***************************************************************************)
\* http_cache::HttpResponse {body, headers, status, url, version}; headers
\* is a HashMap<String, String>: a function from names to values.
HttpResponse(body, headers, status, url, version) ==
    [body |-> body, headers |-> headers, status |-> status, url |-> url,
     version |-> version]

\* The policy record is opaque to the manager: whether the response may be
\* stored and the time until which it is fresh.
CachePolicy(storable, expires) == [storable |-> storable, expires |-> expires]

Store(response, policy) == [response |-> response, policy |-> policy]

NoHeaders == [n \in {} |-> "v1"]

Resp1 == HttpResponse(<<104, 105>>, [n \in {"cache-control"} |-> "max-age=1"],
                      200, "https://example.test/a", "HTTP/1.1")
Resp2 == HttpResponse(<<>>, [n \in HeaderNames |->
                                IF n = "etag" THEN "v2" ELSE "no-store"],
                      404, "https://example.test/b", "HTTP/2.0")

\* The (response, policy) pairs put is called with directly.
PutStores == {Store(Resp1, CachePolicy(TRUE, 1)),
              Store(Resp2, CachePolicy(FALSE, 0))}

(***************************************************************************)
(* bincode                                                                 *)
(*                                                                         *)
(* A blob is a sequence of numbers.  A byte of the body is one number; a   *)
(* length, a u16, an enum index, a bool and a u64 are one number each; a   *)
(* string is one number, its index in StrTab.  The fields follow each      *)
(* other in declaration order: body, headers, status, url, version, then   *)
(* the policy.                                                             *)
(***************************************************************************)
StrCode(s) == CHOOSE i \in 1..Len(StrTab) : StrTab[i] = s
VersionCode(v) == (CHOOSE i \in 1..Len(Versions) : Versions[i] = v) - 1
BoolCode(b) == IF b THEN 1 ELSE 0

\* The orders in which a HashMap may yield its entries.
IterOrders(map) ==
    {o \in [1..Cardinality(DOMAIN map) -> DOMAIN map] : Range(o) = DOMAIN map}

RECURSIVE EncodePairs(_, _)
EncodePairs(map, order) ==
    IF order = <<>> THEN <<>>
    ELSE <<StrCode(Head(order)), StrCode(map[Head(order)])>>
         \o EncodePairs(map, Tail(order))

EncodeStore(store, order) ==
    <<Len(store.response.body)>> \o store.response.body
    \o <<Len(order)>> \o EncodePairs(store.response.headers, order)
    \o <<store.response.status, StrCode(store.response.url),
         VersionCode(store.response.version)>>
    \o <<BoolCode(store.policy.storable), store.policy.expires>>

\* A serializer that leaves the body out of the blob.
SerializeNoBody(store) ==
    {EncodeStore([store EXCEPT !.response.body = <<>>], o) :
        o \in IterOrders(store.response.headers)}

\* bincode::serialize(store): one blob per iteration order of the headers.
serialize(store) ==
    {EncodeStore(store, o) : o \in IterOrders(store.response.headers)}

Err(kind) == [tag |-> "Err", kind |-> kind]
Ok(val) == [tag |-> "Ok", val |-> val]
None == [tag |-> "None"]
Some(val) == [tag |-> "Some", val |-> val]
Unit == [tag |-> "Unit"]

\* Reads n (name, value) pairs starting at position p of bytes into a map;
\* an entry read later replaces an earlier one of the same name.
RECURSIVE DecodePairs(_, _, _)
DecodePairs(bytes, p, n) ==
    IF n = 0 THEN NoHeaders
    ELSE LET rest == DecodePairs(bytes, p, n - 1)
             name == StrTab[bytes[p + 2 * (n - 1)]]
             value == StrTab[bytes[p + 2 * (n - 1) + 1]]
         IN  [x \in DOMAIN rest \cup {name} |->
                 IF x = name THEN value ELSE rest[x]]

IsStrCode(c) == c \in 1..Len(StrTab)

\* bincode::deserialize(&bytes): Ok(store), or Err when the bytes end early
\* or a field does not hold a value of its type.  Bytes after the last field
\* are ignored.
deserialize(bytes) ==
    IF Len(bytes) < 1 THEN Err("UnexpectedEof") ELSE
    LET blen == bytes[1]
        hp == 2 + blen            \* position of the header count
    IN
    IF Len(bytes) < hp THEN Err("UnexpectedEof") ELSE
    IF \E i \in 2..(1 + blen) : bytes[i] > 255 THEN Err("InvalidByte") ELSE
    LET hn == bytes[hp]
        sp == hp + 1 + 2 * hn     \* position of the status
    IN
    IF Len(bytes) < sp + 4 THEN Err("UnexpectedEof") ELSE
    IF \E i \in (hp + 1)..(sp - 1) : ~IsStrCode(bytes[i])
        THEN Err("InvalidUtf8") ELSE
    IF ~IsStrCode(bytes[sp + 1]) THEN Err("InvalidUtf8") ELSE
    IF StrTab[bytes[sp + 1]] \notin Urls THEN Err("InvalidUrl") ELSE
    IF bytes[sp + 2] >= Len(Versions) THEN Err("InvalidTag") ELSE
    IF bytes[sp + 3] > 1 THEN Err("InvalidBool") ELSE
    Ok(Store(HttpResponse(SubSeq(bytes, 2, 1 + blen),
                          DecodePairs(bytes, hp + 1, hn),
                          bytes[sp],
                          StrTab[bytes[sp + 1]],
                          Versions[bytes[sp + 2] + 1]),
             CachePolicy(bytes[sp + 3] = 1, bytes[sp + 4])))

(***************************************************************************)
(* The table cache and the statements run on it                            *)
(***************************************************************************)
Row(id, key, bytes) == [id |-> id, req_key |-> key, store |-> bytes]

RowsOf(tbl, key) == {r \in tbl : r.req_key = key}

\* UNIQUE(req_key), and the unique index cache_req_key_idx.
UniqueReqKey(tbl) ==
    \A r1, r2 \in tbl : r1.req_key = r2.req_key => r1 = r2

\* INSERT without a conflict clause: a row of the same key aborts the
\* statement with a constraint error.
InsertPlain(tbl, seq, key, bytes) ==
    IF RowsOf(tbl, key) # {}
    THEN [table |-> tbl, seq |-> seq, res |-> Err("ConstraintViolation")]
    ELSE [table |-> tbl \cup {Row(seq + 1, key, bytes)}, seq |-> seq + 1,
          res |-> Ok(Unit)]

\* INSERT OR IGNORE: a row of the same key is kept and the new one dropped.
InsertOrIgnore(tbl, seq, key, bytes) ==
    IF RowsOf(tbl, key) # {}
    THEN [table |-> tbl, seq |-> seq, res |-> Ok(Unit)]
    ELSE [table |-> tbl \cup {Row(seq + 1, key, bytes)}, seq |-> seq + 1,
          res |-> Ok(Unit)]

\* A statement that rewrites only the response part of an existing row's blob
\* and keeps the policy bytes (the last two numbers) that were there.
InsertKeepPolicy(tbl, seq, key, bytes) ==
    LET old == RowsOf(tbl, key)
        keep == IF old = {} THEN bytes
                ELSE LET b == (CHOOSE r \in old : TRUE).store
                     IN  IF Len(b) < 2 THEN bytes
                         ELSE SubSeq(bytes, 1, Len(bytes) - 2)
                              \o SubSeq(b, Len(b) - 1, Len(b))
    IN  [table |-> (tbl \ old) \cup {Row(seq + 1, key, keep)},
         seq |-> seq + 1, res |-> Ok(Unit)]

\* "INSERT OR REPLACE INTO cache (req_key, store) VALUES (?1, ?2)": the rows
\* that conflict on req_key are deleted, then the new row is inserted with
\* the next AUTOINCREMENT id.
InsertOrReplace(tbl, seq, key, bytes) ==
    [table |-> (tbl \ RowsOf(tbl, key)) \cup {Row(seq + 1, key, bytes)},
     seq |-> seq + 1,
     res |-> Ok(Unit)]

\* conn.execute(...)? in the closure of write: the statement is applied, or
\* it fails (the disk is full, say) and changes nothing.
WriteOutcomes(tbl, seq, key, bytes) ==
    {InsertOrReplace(tbl, seq, key, bytes),
     [table |-> tbl, seq |-> seq, res |-> Err("Sqlite")]}

\* The first row of "SELECT store FROM cache WHERE req_key = ?1".
FirstRow(rows) == CHOOSE r \in rows : \A q \in rows : r.id <= q.id

\* A read closure that hands the deserialization error on.
ReadStrict(tbl, key) ==
    IF RowsOf(tbl, key) = {} THEN Ok(None)
    ELSE LET d == deserialize(FirstRow(RowsOf(tbl, key)).store)
         IN  IF d.tag = "Ok" THEN Ok(Some(d.val)) ELSE d

\* The closure of SqliteManager::read.
ReadClosure(tbl, key) ==
    IF RowsOf(tbl, key) = {} THEN Ok(None)
    ELSE LET d == deserialize(FirstRow(RowsOf(tbl, key)).store)
         IN  IF d.tag = "Ok" THEN Ok(Some(d.val)) ELSE Ok(None)

\* A read that removes a row whose blob it cannot deserialize.
ReadPurge(tbl, key) ==
    IF RowsOf(tbl, key) # {}
       /\ deserialize(FirstRow(RowsOf(tbl, key)).store).tag = "Err"
    THEN tbl \ RowsOf(tbl, key)
    ELSE tbl

\* The table after the closure of read: its one statement is a SELECT, and
\* nothing is done to a row that cannot be deserialized.
ReadEffect(tbl, key) == tbl

\* A delete that reports a key it did not find.
DeleteStrict(tbl, key) ==
    IF RowsOf(tbl, key) = {}
    THEN [table |-> tbl, res |-> Err("QueryReturnedNoRows")]
    ELSE [table |-> tbl \ RowsOf(tbl, key), res |-> Ok(Unit)]

\* "DELETE FROM cache WHERE req_key = ?1"; the number of rows deleted is
\* dropped.
DeleteClosure(tbl, key) ==
    [table |-> tbl \ RowsOf(tbl, key), res |-> Ok(Unit)]

\* "DELETE FROM cache"
ClearClosure(tbl) == [table |-> {}, res |-> Ok(Unit)]

(***************************************************************************)
(* The closures in flight                                                  *)
(***************************************************************************)
Closure(t, kind, key, bytes) ==
    [task |-> t, kind |-> kind, key |-> key, bytes |-> bytes]

NoCall == [name |-> "none"]

Free(t) == pc[t] \in {"idle", "done"}

\* The inserts among the closures q.
WritesIn(q) == Cardinality({i \in DOMAIN q : q[i].kind = "write"})

\* connection.call(closure): the closure is sent to the connection thread and
\* the task waits for the answer.  (An insert is sent only while the ids it
\* will be given stay within MaxId.)
Send(t, c, closure) ==
    /\ closure.kind = "write" => sqlite_seq + WritesIn(queue) < MaxId
    /\ queue' = Append(queue, closure)
    /\ pc' = [pc EXCEPT ![t] = "awaiting"]
    /\ call' = [call EXCEPT ![t] = c]
    /\ ret' = [ret EXCEPT ![t] = Unit]
    /\ UNCHANGED <<table, sqlite_seq, reply, mode, now, lastPut, putLog>>

(***************************************************************************)
(* CacheManager for SqliteManager, called directly                         *)
(***************************************************************************)
\* put, up to the await in write: the Store is built from a clone of the
\* response and serialized, and the insert is sent.
put(t, method, url, response, policy) ==
    /\ Free(t)
    /\ \E bytes \in serialize(Store(response, policy)) :
          Send(t, [name |-> "put", key |-> req_key(method, url),
                   response |-> response, policy |-> policy],
               Closure(t, "write", req_key(method, url), bytes))

\* get, up to the await in read.
get(t, method, url) ==
    /\ Free(t)
    /\ Send(t, [name |-> "get", key |-> req_key(method, url)],
            Closure(t, "read", req_key(method, url), <<>>))

\* delete, up to the await.
delete(t, method, url) ==
    /\ Free(t)
    /\ Send(t, [name |-> "delete", key |-> req_key(method, url)],
            Closure(t, "delete", req_key(method, url), <<>>))

\* clear, up to the await.
clear(t) ==
    /\ Free(t)
    /\ Send(t, [name |-> "clear"], Closure(t, "clear", "", <<>>))

\* The rest of put, get, delete and clear after the await: an error of the
\* closure is handed on by `?`; put returns the response it was given, get
\* the (response, policy) pair of the Store read.
Returned(c, ans) ==
    IF ans.tag = "Err" THEN ans
    ELSE IF c.name = "put" THEN Ok(c.response)
    ELSE IF c.name = "get" THEN
        IF ans.val.tag = "Some"
        THEN Ok(Some(<<ans.val.val.response, ans.val.val.policy>>))
        ELSE Ok(None)
    ELSE Ok(Unit)

\* The answer of a closure reaches the task that sent it: a direct call of
\* the manager returns; a run of the cache goes on from its await; the answer
\* to a run that was cancelled meanwhile is dropped.
Deliver(t, ans) ==
    IF pc[t] = "cancelled" THEN UNCHANGED <<reply, pc, ret>>
    ELSE IF call[t].name = "run"
    THEN /\ reply' = [reply EXCEPT ![t] = ans]
         /\ pc' = [pc EXCEPT ![t] = "resumed"]
         /\ UNCHANGED ret
    ELSE /\ ret' = [ret EXCEPT ![t] = Returned(call[t], ans)]
         /\ pc' = [pc EXCEPT ![t] = "done"]
         /\ UNCHANGED reply

\* The connection thread takes the oldest closure, runs it on the database
\* and answers the task that sent it.
ConnectionThread ==
    /\ queue # <<>>
    /\ LET c == Head(queue)
           t == c.task
       IN  /\ queue' = Tail(queue)
           /\ UNCHANGED <<call, mode, now>>
           /\ \/ /\ c.kind = "write"
                 /\ \E w \in WriteOutcomes(table, sqlite_seq, c.key, c.bytes) :
                    LET s == Store(call[t].response, call[t].policy)
                    IN  /\ table' = w.table
                        /\ sqlite_seq' = w.seq
                        /\ Deliver(t, w.res)
                        /\ IF w.res.tag = "Ok"
                           THEN /\ lastPut' = [lastPut EXCEPT ![c.key] = Some(s)]
                                /\ putLog' = [putLog EXCEPT
                                                ![c.key] = @ \cup {s}]
                           ELSE UNCHANGED <<lastPut, putLog>>
              \/ /\ c.kind = "read"
                 /\ table' = ReadEffect(table, c.key)
                 /\ Deliver(t, ReadClosure(table, c.key))
                 /\ UNCHANGED <<sqlite_seq, lastPut, putLog>>
              \/ /\ c.kind = "delete"
                 /\ LET d == DeleteClosure(table, c.key)
                    IN  /\ table' = d.table
                        /\ Deliver(t, d.res)
                        /\ lastPut' = [lastPut EXCEPT ![c.key] = None]
                 /\ UNCHANGED <<sqlite_seq, putLog>>
              \/ /\ c.kind = "clear"
                 /\ LET d == ClearClosure(table)
                    IN  /\ table' = d.table
                        /\ Deliver(t, d.res)
                        /\ lastPut' = [k \in Keys |-> None]
                 /\ UNCHANGED <<sqlite_seq, putLog>>

(***************************************************************************)
(* The database a manager is opened on: create_tables keeps what an        *)
(* existing file holds.                                                    *)
(***************************************************************************)
StoredBlob == EncodeStore(Store(Resp1, CachePolicy(TRUE, 1)), <<"cache-control">>)

\* A blob that ends early and a blob of no Store at all.
BrokenBlobs == {SubSeq(StoredBlob, 1, 3), <<>>}

InitTables ==
    {{}} \cup {{Row(1, k, b)} : k \in {req_key("GET", "https://example.test/a")},
                                b \in {StoredBlob} \cup BrokenBlobs}

InitStore ==
    /\ table \in InitTables
    /\ sqlite_seq = Cardinality(table)
    /\ queue = <<>>
    /\ pc = [t \in Tasks |-> "idle"]
    /\ call = [t \in Tasks |-> NoCall]
    /\ reply = [t \in Tasks |-> Unit]
    /\ ret = [t \in Tasks |-> Unit]
    /\ lastPut = [k \in Keys |-> None]
    /\ putLog = [k \in Keys |->
          {deserialize(r.store).val :
              r \in {q \in RowsOf(table, k) : deserialize(q.store).tag = "Ok"}}]

\* The manager called directly by concurrent tasks.
Init == InitStore /\ mode = "Default" /\ now = 0

Next ==
    \/ \E t \in Tasks, x \in Targets, s \in PutStores :
          put(t, x[1], x[2], s.response, s.policy)
    \/ \E t \in Tasks, x \in Targets : get(t, x[1], x[2])
    \/ \E t \in Tasks, x \in Targets : delete(t, x[1], x[2])
    \/ \E t \in Tasks : clear(t)
    \/ ConnectionThread

Spec == Init /\ [][Next]_vars

\* Pairs that differ in the method only, in the URL only, and in both.
KeyTargets == {<<"GET", "https://example.test/a">>,
               <<"POST", "https://example.test/a">>,
               <<"GET", "https://example.test/b">>}

\* The manager called by one task, one call after the other, on these pairs.
KeyNext ==
    \/ \E x \in KeyTargets, s \in PutStores :
          put("t1", x[1], x[2], s.response, s.policy)
    \/ \E x \in KeyTargets : get("t1", x[1], x[2])
    \/ \E x \in KeyTargets : delete("t1", x[1], x[2])
    \/ clear("t1")
    \/ ConnectionThread

KeySpec == Init /\ [][KeyNext]_vars

(***************************************************************************)
(* The reqwest middleware (ReqwestMiddleware) and the network                *)
(***************************************************************************)
Modes == {"Default", "NoStore", "Reload", "NoCache", "ForceCache",
          "OnlyIfCached", "IgnoreRules"}

\* A reqwest Request: try_clone gives None when the body is a stream.  Its
\* headers are an http HeaderMap, every name of it with one value or more.
Request(method, url, headers, clonable) ==
    [method |-> method, url |-> url, headers |-> headers,
     clonable |-> clonable]

\* The requests the cache is run on.
RunRequests ==
    {Request("GET", "https://example.test/a", NoHeaders, TRUE),
     Request("GET", "https://example.test/a", NoHeaders, FALSE),
     Request("POST", "https://example.test/a", NoHeaders, TRUE),
     Request("POST", "https://example.test/a", NoHeaders, FALSE)}

\* A variant that takes every method for a cacheable one.
IsMethodAny(req) == TRUE

\* is_method_get_head
is_method_get_head(req) == req.method = "GET" \/ req.method = "HEAD"

\* A variant of clone_req that goes on with the request when try_clone
\* gives None.
CloneAlways(req) == Ok(req)

\* clone_req
clone_req(req) == IF req.clonable THEN Ok(req) ELSE Err("BadRequest")

\* HeaderMap::insert: the name is left with this one value, whatever values
\* it had; the other names stay as they are.
HeaderInsert(map, name, value) ==
    [n \in DOMAIN map \cup {name} |-> IF n = name THEN <<value>> ELSE map[n]]

\* HeaderMap::iter: the (name, value) pairs of a map, the values of a name
\* in their order, the names in an order of the map's own.
RECURSIVE HeaderIter(_)
HeaderIter(map) ==
    IF DOMAIN map = {} THEN <<>>
    ELSE LET n == CHOOSE m \in DOMAIN map : TRUE
         IN  [i \in 1..Len(map[n]) |-> <<n, map[n][i]>>]
             \o HeaderIter([m \in DOMAIN map \ {n} |-> map[m]])

\* The loop of update_headers: one insert per pair, in the order of iter.
RECURSIVE InsertAll(_, _)
InsertAll(map, pairs) ==
    IF pairs = <<>> THEN map
    ELSE InsertAll(HeaderInsert(map, pairs[1][1], pairs[1][2]), Tail(pairs))

\* A variant of update_headers that puts the headers of parts in the place
\* of those of the request.
UpdateHeadersReplace(req, headers) == [req EXCEPT !.headers = headers]

\* update_headers: HeaderMap::insert on the request for every header of
\* parts.
update_headers(req, headers) ==
    [req EXCEPT !.headers = InsertAll(@, HeaderIter(headers))]

\* A variant of force_no_cache that leaves the request as it is.
ForceNothing(req) == req

\* force_no_cache
force_no_cache(req) ==
    [req EXCEPT !.headers = HeaderInsert(@, "cache-control", "no-cache")]

\* A header value that is not visible ASCII: HeaderValue::to_str fails on it.
Opaque == "\\xE9"

\* A response as reqwest hands it over: its headers are a list of (name,
\* value) pairs, a name may occur more than once.
NetResponse(status, headers, body) ==
    [status |-> status, headers |-> headers, body |-> body,
     url |-> "https://example.test/a", version |-> "HTTP/1.1"]

NetFresh == NetResponse(200, <<<<"cache-control", "max-age=1">>,
                               <<"etag", "v1">>>>, <<104, 105>>)
NetNoStore == NetResponse(200, <<<<"cache-control", "no-store">>>>, <<106>>)
NetTwice == NetResponse(200, <<<<"etag", "v1">>, <<"etag", "v2">>>>, <<>>)
NetOpaque == NetResponse(200, <<<<"etag", Opaque>>>>, <<104>>)
NetNotModified == NetResponse(304, <<<<"cache-control", "max-age=1">>>>, <<>>)
NetNotModifiedBare == NetResponse(304, <<<<"etag", "v1">>>>, <<>>)

\* What next.run and res.bytes() may give for a request: an error of the
\* transport, a response whose body cannot be read, or a response; "not
\* modified" answers a conditional request only.
NetOutcomes(req) ==
    {Err("Transport")}
    \cup {[tag |-> "Ok", val |-> r, body_ok |-> FALSE] : r \in {NetFresh}}
    \cup {[tag |-> "Ok", val |-> r, body_ok |-> TRUE] :
            r \in {NetFresh, NetNoStore, NetTwice, NetOpaque}
                  \cup (IF "if-none-match" \in DOMAIN req.headers
                        THEN {NetNotModified, NetNotModifiedBare}
                        ELSE {})}

\* The loop of remote_fetch over res.headers(): HashMap::insert keeps the
\* last value of a name.
RECURSIVE CollectHeaders(_)
CollectHeaders(hs) ==
    IF hs = <<>> THEN NoHeaders
    ELSE LET rest == CollectHeaders(SubSeq(hs, 1, Len(hs) - 1))
             h == hs[Len(hs)]
         IN  [n \in DOMAIN rest \cup {h[1]} |->
                 IF n = h[1] THEN h[2] ELSE rest[n]]

\* A variant of remote_fetch that hands on what it has when the body cannot
\* be read to its end.
FetchedPartial(outcome) ==
    IF outcome.tag = "Err" THEN outcome
    ELSE IF \E i \in DOMAIN outcome.val.headers :
                outcome.val.headers[i][2] = Opaque
    THEN Err("ToStrError")
    ELSE Ok(HttpResponse(IF outcome.body_ok THEN outcome.val.body
                         ELSE SubSeq(outcome.val.body, 1, 1),
                         CollectHeaders(outcome.val.headers),
                         outcome.val.status, outcome.val.url,
                         outcome.val.version))

\* remote_fetch after next.run has answered: an error of the transport is
\* handed on; to_str()? fails on a value that is not visible ASCII; the body
\* is read whole; the five http versions all convert.
Fetched(outcome) ==
    IF outcome.tag = "Err" THEN outcome
    ELSE IF \E i \in DOMAIN outcome.val.headers :
                outcome.val.headers[i][2] = Opaque
    THEN Err("ToStrError")
    ELSE IF ~outcome.body_ok THEN Err("Body")
    ELSE Ok(HttpResponse(outcome.val.body,
                         CollectHeaders(outcome.val.headers),
                         outcome.val.status, outcome.val.url,
                         outcome.val.version))

\* A conversion that leaves the body out.
ConvertNoBody(response) ==
    Ok([status |-> response.status, url |-> response.url,
        version |-> response.version, body |-> <<>>,
        headers |-> {<<n, response.headers[n]>> : n \in DOMAIN response.headers}])

\* A conversion that copies no header.
ConvertNoHeaders(response) ==
    Ok([status |-> response.status, url |-> response.url,
        version |-> response.version, body |-> response.body,
        headers |-> {}])

\* convert_response: a reqwest Response with the status, url, version and
\* body of the HttpResponse and one header per entry of its map.  The names
\* and values of the model are all valid header names and values.
convert_response(response) ==
    Ok([status |-> response.status, url |-> response.url,
        version |-> response.version, body |-> response.body,
        headers |-> {<<n, response.headers[n]>> : n \in DOMAIN response.headers}])

\* A variant of handle that answers an error of run with an empty response.
HandleLenient(result) ==
    IF result.tag = "Err"
    THEN Ok([status |-> 504, url |-> "https://example.test/a",
             version |-> "HTTP/1.1", body |-> <<>>, headers |-> {}])
    ELSE convert_response(result.val)

\* Cache::handle around run: an error becomes Error::Middleware, a response
\* is converted.
handle(result) ==
    IF result.tag = "Err" THEN Err("Middleware:" \o result.kind)
    ELSE convert_response(result.val)

(***************************************************************************)
(* update_headers called on a middleware by itself                         *)
(***************************************************************************)
\* The header maps over names, every name absent or with one of vals.
HeaderMaps(names, vals) ==
    UNION {[ns -> vals] : ns \in SUBSET names}

\* The requests update_headers is called on, and the parts it is given.
HdrRequests ==
    {Request("GET", "https://example.test/a", h, TRUE) :
        h \in HeaderMaps({"accept", "if-none-match"},
                         {<<"v0">>, <<"v0", "v2">>})}

HdrParts ==
    HeaderMaps({"if-none-match", "cache-control"}, {<<"v1">>, <<"v1", "v2">>})

\* update_headers(&mut self, parts) on the middleware of task t.
UpdateHeaders(t) ==
    /\ pc[t] = "idle"
    /\ call[t].name = "update_headers"
    /\ call' = [call EXCEPT ![t].req = update_headers(@, call[t].parts)]
    /\ pc' = [pc EXCEPT ![t] = "done"]
    /\ ret' = [ret EXCEPT ![t] = Ok(Unit)]
    /\ UNCHANGED <<table, sqlite_seq, queue, reply, mode, now, lastPut, putLog>>

\* Every task holds a middleware with a request of its own, and the parts it
\* will apply; `was` keeps the request as it is before the call.
HdrInit ==
    /\ table = {}
    /\ sqlite_seq = 0
    /\ queue = <<>>
    /\ pc = [t \in Tasks |-> "idle"]
    /\ call \in [Tasks -> {[name |-> "update_headers", req |-> r, was |-> r,
                            parts |-> h] : r \in HdrRequests, h \in HdrParts}]
    /\ reply = [t \in Tasks |-> Unit]
    /\ ret = [t \in Tasks |-> Unit]
    /\ lastPut = [k \in Keys |-> None]
    /\ putLog = [k \in Keys |-> {}]
    /\ mode = "Default"
    /\ now = 0

HdrNext == \E t \in Tasks : UpdateHeaders(t)

HdrSpec == HdrInit /\ [][HdrNext]_vars

(***************************************************************************)
(* The policy oracle (http_cache_semantics::CachePolicy)                   *)
(***************************************************************************)
\* new_policy: a response is storable unless it says no-store; it is fresh
\* for the time its max-age gives.
new_policy(req, response, clock) ==
    LET cc == IF "cache-control" \in DOMAIN response.headers
              THEN response.headers["cache-control"] ELSE ""
    IN  CachePolicy(cc # "no-store",
                    clock + (IF cc = "max-age=1" THEN 1 ELSE 0))

\* ReqwestMiddleware::policy: parts() clones the request first.
policy(req, response, clock) ==
    IF clone_req(req).tag = "Err" THEN clone_req(req)
    ELSE Ok(new_policy(req, response, clock))

is_fresh(pol, clock) == clock < pol.expires

\* The validators of a stored entry, as headers of a conditional request.
revalidation_headers(pol) == [n \in {"if-none-match"} |-> <<"v1">>]

\* The entry after "not modified": the stored body under the headers of the
\* revalidation exchange.
merge(stored, response) ==
    [stored EXCEPT !.headers =
        [n \in DOMAIN stored.headers \cup DOMAIN response.headers |->
            IF n \in DOMAIN response.headers THEN response.headers[n]
            ELSE stored.headers[n]]]

(***************************************************************************)
(* HttpCache::run, called by Cache::handle                                 *)
(***************************************************************************)
\* The state of one run: the request (as changed so far), where the run
\* stands, what the lookup found, what the oracle said of it, how many times
\* next.run was called, what it answered (res), what remote_fetch returned,
\* what is being stored and the time its policy was made at.
RunCall(req) ==
    [name |-> "run", key |-> req_key(req.method, req.url), req |-> req,
     stage |-> "lookup", bypass |-> FALSE, cond |-> FALSE, net |-> 0,
     stored |-> None, fresh |-> FALSE, res |-> Unit, fetched |-> Unit,
     response |-> Unit, policy |-> Unit, clock |-> 0]

\* run returns result to handle, and handle to the caller.
Finish(t, c, result) ==
    /\ pc' = [pc EXCEPT ![t] = "done"]
    /\ call' = [call EXCEPT ![t] = c]
    /\ ret' = [ret EXCEPT ![t] = handle(result)]
    /\ UNCHANGED <<table, sqlite_seq, queue, reply, mode, now, lastPut, putLog>>

\* remote_fetch up to the await of next.run: a request that cannot be cloned
\* ends the run with the error, before anything is sent.
StartFetch(t, c) ==
    IF clone_req(c.req).tag = "Err"
    THEN Finish(t, c, clone_req(c.req))
    ELSE /\ pc' = [pc EXCEPT ![t] = "fetching"]
         /\ call' = [call EXCEPT ![t] = [c EXCEPT !.net = @ + 1]]
         /\ ret' = [ret EXCEPT ![t] = Unit]
         /\ UNCHANGED <<table, sqlite_seq, queue, reply, mode, now,
                        lastPut, putLog>>

\* Cache::handle is called on a task of its own for every request.  run, to
\* its first await: a request that is not GET or HEAD, and every
\* request in mode NoStore, goes to the network; the others look the key up.
run(t, req) ==
    /\ pc[t] = "idle"
    /\ IF ~is_method_get_head(req) \/ mode = "NoStore"
       THEN StartFetch(t, [RunCall(req) EXCEPT !.bypass = TRUE,
                                               !.stage = "fetch"])
       ELSE Send(t, RunCall(req),
                 Closure(t, "read", req_key(req.method, req.url), <<>>))

\* run after the lookup.  Nothing found: OnlyIfCached fails, the other modes
\* fetch.  Found: ForceCache, IgnoreRules and OnlyIfCached serve the entry as
\* it is; Reload fetches anew; Default serves a fresh entry; a stale entry,
\* and every entry in mode NoCache, is revalidated by a conditional request.
Lookup(t) ==
    /\ pc[t] = "resumed"
    /\ call[t].name = "run"
    /\ call[t].stage = "lookup"
    /\ LET found == Returned([name |-> "get"], reply[t])
           c == [call[t] EXCEPT !.stage = "fetch"]
       IN  IF found.tag = "Err" THEN Finish(t, c, found)
           ELSE IF found.val.tag = "None"
           THEN IF mode = "OnlyIfCached"
                THEN Finish(t, c, Err("CacheMiss"))
                ELSE StartFetch(t, c)
           ELSE LET entry == found.val.val
                    fresh == is_fresh(entry[2], now)
                    h == [c EXCEPT !.stored = Some(Store(entry[1], entry[2])),
                                   !.fresh = fresh]
                IN  IF mode \in {"ForceCache", "IgnoreRules", "OnlyIfCached"}
                    THEN Finish(t, h, Ok(entry[1]))
                    ELSE IF mode = "Reload" THEN StartFetch(t, h)
                    ELSE IF fresh /\ mode # "NoCache"
                    THEN Finish(t, h, Ok(entry[1]))
                    ELSE StartFetch(t,
                            [h EXCEPT !.cond = TRUE,
                                      !.req = LET r == update_headers(
                                                     @, revalidation_headers(entry[2]))
                                              IN  IF mode = "NoCache"
                                                  THEN force_no_cache(r) ELSE r])

\* The network answers and remote_fetch returns; run goes on to its next
\* await.  An error ends the run.  A run that skips the cache returns the
\* response.  "Not modified" to a conditional request: the merged entry is
\* stored, under the policy made of it now.  Any other response: it is stored
\* if the oracle says it may be.
FetchReturns(t) ==
    /\ pc[t] = "fetching"
    /\ \E outcome \in NetOutcomes(call[t].req) :
          LET f == Fetched(outcome)
              c == [call[t] EXCEPT !.res = outcome, !.fetched = f,
                                   !.stage = "store"]
          IN  IF f.tag = "Err" \/ c.bypass THEN Finish(t, c, f)
              ELSE LET merged == c.cond /\ f.val.status = 304
                       res == IF merged
                              THEN merge(c.stored.val.response, f.val)
                              ELSE f.val
                       pol == policy(c.req, res, now)
                   IN  IF pol.tag = "Err" THEN Finish(t, c, pol)
                       ELSE IF ~merged /\ ~pol.val.storable
                       THEN Finish(t, c, Ok(res))
                       ELSE \E bytes \in serialize(Store(res, pol.val)) :
                              Send(t, [c EXCEPT !.response = res,
                                                !.policy = pol.val,
                                                !.clock = now],
                                   Closure(t, "write", c.key, bytes))

\* run after the write: put hands back the response, or the error of the
\* write alone; run returns the response in both cases, the error of a write
\* is dropped.
Stored(t) ==
    /\ pc[t] = "resumed"
    /\ call[t].name = "run"
    /\ call[t].stage = "store"
    /\ LET p == Returned([name |-> "put", response |-> call[t].response],
                         reply[t])
       IN  Finish(t, call[t],
                  IF p.tag = "Err" THEN Ok(call[t].response) ELSE p)

\* The caller drops the future of handle while it waits at an await of run:
\* nothing more of the run is executed.  A closure already sent stays with
\* the connection thread.
Cancel(t) ==
    /\ call[t].name = "run"
    /\ pc[t] \in {"awaiting", "fetching"}
    /\ pc' = [pc EXCEPT ![t] = "cancelled"]
    /\ UNCHANGED <<table, sqlite_seq, queue, call, reply, ret, mode, now,
                   lastPut, putLog>>

\* Time passes.
Tick ==
    /\ now < MaxTime
    /\ now' = now + 1
    /\ UNCHANGED <<table, sqlite_seq, queue, pc, call, reply, ret, mode,
                   lastPut, putLog>>

\* One Cache instance, of any mode, run by concurrent tasks.
RunInit == InitStore /\ mode \in Modes /\ now = 0

RunNext ==
    \/ \E t \in Tasks, req \in RunRequests : run(t, req)
    \/ \E t \in Tasks : Lookup(t)
    \/ \E t \in Tasks : FetchReturns(t)
    \/ \E t \in Tasks : Stored(t)
    \/ \E t \in Tasks : Cancel(t)
    \/ ConnectionThread
    \/ Tick

RunSpec == RunInit /\ [][RunNext]_vars

(***************************************************************************)
(* Properties of the manager                                               *)
(***************************************************************************)
\* What get(method, url) returns when its closure runs on tbl.
GetOn(tbl, key) == Returned([name |-> "get", key |-> key], ReadClosure(tbl, key))

\* Task t's call `name` returns in this step.
Returns(t, name) ==
    /\ pc[t] = "awaiting"
    /\ pc'[t] = "done"
    /\ call[t].name = name

Pair(s) == <<s.response, s.policy>>

\* C1: once a put on a key has been applied, and as long as no later put,
\* delete or clear has touched the key, get on that key returns
\* Some((r, p)) with r and p exactly the response (status, headers, body,
\* url, version) and policy that were put.
C1_RoundTrip ==
    \A k \in Keys :
        lastPut[k].tag = "Some" => GetOn(table, k) = Ok(Some(Pair(lastPut[k].val)))

\* A get has returned the pair last put on its key, a response with a body
\* and headers.
C1_Witness ==
    \E t \in Tasks :
        /\ pc[t] = "done"
        /\ call[t].name = "get"
        /\ lastPut[call[t].key].tag = "Some"
        /\ ret[t] = Ok(Some(Pair(lastPut[call[t].key].val)))
        /\ lastPut[call[t].key].val.response = Resp1

\* C2: the table never holds two rows of one key; a put never fails with a
\* key collision (it fails only when the database cannot be written at all)
\* and otherwise returns the response it was given; and a key whose last
\* operation was a put holds exactly one row, the one get returns.
C2_Upsert ==
    /\ UniqueReqKey(table)
    /\ \A t \in Tasks :
          pc[t] = "done" /\ call[t].name = "put"
          => ret[t] \in {Ok(call[t].response), Err("Sqlite")}
    /\ \A k \in Keys :
          lastPut[k].tag = "Some" =>
              /\ Cardinality(RowsOf(table, k)) = 1
              /\ GetOn(table, k).val.tag = "Some"

\* Both tasks have put the same arguments and both puts have returned Ok; the
\* key holds one row.
C2_Witness ==
    /\ \A t \in Tasks : pc[t] = "done" /\ call[t].name = "put" /\ ret[t].tag = "Ok"
    /\ call["t1"] = call["t2"]
    /\ Cardinality(RowsOf(table, call["t1"].key)) = 1

\* The stored blob of key cannot be deserialized.
Undeserializable(tbl, key) ==
    /\ RowsOf(tbl, key) # {}
    /\ deserialize(FirstRow(RowsOf(tbl, key)).store).tag = "Err"

\* C3: a get whose key has no row, or has a row whose blob cannot be
\* deserialized, returns Ok(None): never an error, and the same value in
\* both cases.
C3_GetNone ==
    [][\A t \in Tasks :
          (/\ Returns(t, "get")
           /\ \/ RowsOf(table, call[t].key) = {}
              \/ Undeserializable(table, call[t].key))
          => ret'[t] = Ok(None)]_vars

\* A get has returned Ok(None) on a key whose row holds a broken blob.
C3_Witness ==
    \E t \in Tasks :
        /\ pc[t] = "done"
        /\ call[t].name = "get"
        /\ ret[t] = Ok(None)
        /\ Undeserializable(table, call[t].key)

\* C4: when a delete returns, it returns Ok, a get on its key would return
\* None, and a second delete of the key would return Ok and leave the table
\* as it is.
C4_Delete ==
    [][\A t \in Tasks :
          Returns(t, "delete") =>
              /\ ret'[t] = Ok(Unit)
              /\ GetOn(table', call[t].key) = Ok(None)
              /\ DeleteClosure(table', call[t].key).table = table'
              /\ DeleteClosure(table', call[t].key).res = Ok(Unit)]_vars

\* Both tasks have deleted the same key, so one of the deletes found no row,
\* and both returned Ok.
C4_Witness ==
    /\ \A t \in Tasks :
          pc[t] = "done" /\ call[t].name = "delete" /\ ret[t] = Ok(Unit)
    /\ call["t1"].key = call["t2"].key
    /\ sqlite_seq > 0

\* C5: whatever the interleaving of the tasks' puts, gets and deletes, a get
\* returns None or the (response, policy) pair of one put applied to its key:
\* never a part of an entry, never the response of one put with the policy of
\* another.
C5_Atomic ==
    [][\A t \in Tasks :
          Returns(t, "get") =>
              \/ ret'[t] = Ok(None)
              \/ \E s \in putLog[call[t].key] : ret'[t] = Ok(Some(Pair(s)))]_vars

\* A get has returned an entry of a key on which two different puts were
\* applied, while the other task's put on the same key is in flight.
C5_Witness ==
    \E t, u \in Tasks :
        /\ pc[t] = "done" /\ call[t].name = "get" /\ ret[t].val.tag = "Some"
        /\ Cardinality(putLog[call[t].key]) = 2
        /\ pc[u] = "awaiting" /\ call[u].name = "put"
        /\ call[u].key = call[t].key

(***************************************************************************)
(* Properties of the cache run on the manager                              *)
(***************************************************************************)
RunDone(t) == pc[t] = "done" /\ call[t].name = "run"

\* The run of t found nothing under its key.
Missed(t) ==
    RunDone(t) /\ ~call[t].bypass /\ call[t].stored = None
    /\ is_method_get_head(call[t].req)

\* The run of t has written an entry.
Wrote(t) == RunDone(t) /\ call[t].response # Unit /\ reply[t].tag = "Ok"

\* The reqwest Response that carries exactly the HttpResponse r.
AsResponse(r) ==
    [status |-> r.status, url |-> r.url, version |-> r.version,
     body |-> r.body, headers |-> {<<n, r.headers[n]>> : n \in DOMAIN r.headers}]

\* C6: when two runs have both missed on the same key, both fetched and both
\* written, the key holds exactly one row, and it is the entry of the write
\* that was applied last, which is the entry of one of the two runs.
C6_LastWriterWins ==
    (/\ \A t \in Tasks : Missed(t) /\ Wrote(t) /\ call[t].net = 1
     /\ call["t1"].key = call["t2"].key)
    => LET k == call["t1"].key
       IN  /\ Cardinality(RowsOf(table, k)) = 1
           /\ lastPut[k].tag = "Some"
           /\ GetOn(table, k) = Ok(Some(Pair(lastPut[k].val)))
           /\ \E t \in Tasks :
                 lastPut[k].val = Store(call[t].response, call[t].policy)

\* Two runs have missed on one key, both fetched and both written, and they
\* wrote different responses.
C6_Witness ==
    /\ \A t \in Tasks : Missed(t) /\ Wrote(t) /\ call[t].net = 1
    /\ call["t1"].key = call["t2"].key
    /\ call["t1"].response # call["t2"].response
    /\ mode = "Default"

\* The oracle says the response that t fetched may be stored.
Storable(t) ==
    /\ call[t].fetched.tag = "Ok"
    /\ new_policy(call[t].req, call[t].fetched.val, 0).storable

\* The entry present under the key of t.
Present(t) == GetOn(table, call[t].key).val.tag = "Some"

\* C7 as stated: a GET/HEAD run in mode Default that finds no entry makes
\* exactly one network call, returns the fetched response, and leaves an
\* entry in storage if the response is storable.
C7_Original ==
    \A t \in Tasks :
        Missed(t) /\ mode = "Default" =>
            /\ call[t].net = 1
            /\ call[t].fetched.tag = "Ok" =>
                  /\ ret[t] = Ok(AsResponse(call[t].fetched.val))
                  /\ Storable(t) => Present(t)

\* C7, amended: such a run makes exactly one network call if its request can
\* be cloned, and none if it cannot, in which case it returns the clone
\* error; if the fetch succeeds the fetched response is returned and, when
\* it is storable and its write succeeds, an entry is in storage when the run
\* returns; if the fetch fails its error is returned.
C7_DefaultMiss ==
    \A t \in Tasks :
        Missed(t) /\ mode = "Default" =>
            /\ call[t].req.clonable => call[t].net = 1
            /\ ~call[t].req.clonable =>
                  call[t].net = 0 /\ ret[t] = Err("Middleware:BadRequest")
            /\ call[t].net = 1 /\ call[t].fetched.tag = "Ok" =>
                  /\ ret[t] = Ok(AsResponse(call[t].fetched.val))
                  /\ Storable(t) /\ reply[t].tag = "Ok" => Present(t)
            /\ call[t].net = 1 /\ call[t].fetched.tag = "Err" =>
                  ret[t] = Err("Middleware:" \o call[t].fetched.kind)

\* A run in mode Default has missed, fetched a storable response once,
\* returned it, and the entry is in storage.
C7_Witness ==
    \E t \in Tasks :
        /\ Missed(t) /\ mode = "Default" /\ call[t].net = 1
        /\ Storable(t) /\ Present(t)
        /\ ret[t] = Ok(AsResponse(call[t].fetched.val))

\* C8 as stated: in mode OnlyIfCached, on an empty cache, every run fails
\* with CacheMiss and makes no network call.
C8_Original ==
    \A t \in Tasks :
        RunDone(t) /\ mode = "OnlyIfCached" /\ table = {} =>
            ret[t] = Err("Middleware:CacheMiss") /\ call[t].net = 0

\* C8, amended: in mode OnlyIfCached, on an empty cache, every run of a GET
\* or HEAD request fails with CacheMiss and makes no network call.
C8_OnlyIfCached ==
    \A t \in Tasks :
        (/\ RunDone(t) /\ mode = "OnlyIfCached" /\ table = {}
         /\ call[t].req.method \in {"GET", "HEAD"})
        => ret[t] = Err("Middleware:CacheMiss") /\ call[t].net = 0

\* A GET run in mode OnlyIfCached has ended on an empty cache.
C8_Witness ==
    \E t \in Tasks :
        /\ RunDone(t) /\ mode = "OnlyIfCached" /\ table = {}
        /\ call[t].req.method = "GET"
        /\ ret[t] = Err("Middleware:CacheMiss")

\* The request of t skips the cache: mode NoStore, or neither GET nor HEAD.
Skips(t) ==
    /\ call[t].name = "run"
    /\ mode = "NoStore" \/ call[t].req.method \notin {"GET", "HEAD"}

\* No closure of a run that skips the cache is on its way to the database.
NoStorageCall == \A i \in DOMAIN queue : ~Skips(queue[i].task)

\* C9 as stated: a run that skips the cache never calls get or put, makes the
\* network call and returns what was fetched.
C9_Original ==
    /\ NoStorageCall
    /\ \A t \in Tasks :
          RunDone(t) /\ Skips(t) =>
              call[t].net = 1 /\ ret[t] = handle(call[t].fetched)

\* C9, amended: a run that skips the cache never calls get or put and leaves
\* the table as it is, whether or not the key has a row; if its request can
\* be cloned it makes exactly one network call and returns what remote_fetch
\* returned, the response or the error; if the request cannot be cloned it
\* makes no network call and returns the clone error.  So two NoStore runs
\* of one request that can be cloned make one network call each.
C9_Bypass ==
    [][/\ NoStorageCall'
       /\ mode = "NoStore" => table' = table
       /\ \A t \in Tasks :
             (pc[t] # "done" /\ pc'[t] = "done" /\ Skips(t)') =>
                 /\ table' = table
                 /\ call'[t].req.clonable =>
                       /\ call'[t].net = 1
                       /\ ret'[t] = IF call'[t].fetched.tag = "Ok"
                                    THEN Ok(AsResponse(call'[t].fetched.val))
                                    ELSE Err("Middleware:"
                                             \o call'[t].fetched.kind)
                 /\ ~call'[t].req.clonable =>
                       /\ call'[t].net = 0
                       /\ ret'[t] = Err("Middleware:BadRequest")]_vars

\* Two NoStore runs of the same GET request have each made a network call
\* and returned a response, with an entry for the key in the table.
C9_Witness ==
    /\ mode = "NoStore"
    /\ \A t \in Tasks :
          RunDone(t) /\ call[t].net = 1 /\ ret[t].tag = "Ok"
          /\ call[t].req.method = "GET"
    /\ call["t1"].req = call["t2"].req
    /\ Present("t1")

\* C10: a run in mode ForceCache or IgnoreRules that finds an entry whose
\* policy is stale makes no network call and returns the stored response as
\* it is: status, url, version, body and headers.
C10_ForceCache ==
    \A t \in Tasks :
        (/\ RunDone(t) /\ mode \in {"ForceCache", "IgnoreRules"}
         /\ call[t].stored # None /\ ~call[t].fresh)
        => /\ call[t].net = 0
           /\ ret[t] = Ok(AsResponse(call[t].stored.val.response))

\* A run in mode ForceCache has served a stale entry that has headers.
C10_Witness ==
    \E t \in Tasks :
        /\ RunDone(t) /\ mode = "ForceCache"
        /\ call[t].stored # None /\ ~call[t].fresh
        /\ ~is_fresh(call[t].stored.val.policy, now)
        /\ ret[t].tag = "Ok" /\ ret[t].val.headers # {}
        /\ call[t].net = 0

\* The run of t made a conditional request and was answered "not modified".
Revalidated(t) ==
    /\ call[t].name = "run" /\ call[t].cond
    /\ call[t].fetched # Unit /\ call[t].fetched.tag = "Ok"
    /\ call[t].fetched.val.status = 304

\* The entry the run of t has made of a "not modified" answer: the body of the
\* stored response, and every header of the answer.
MergedOf(t) ==
    /\ call[t].response.body = call[t].stored.val.response.body
    /\ \A n \in DOMAIN call[t].fetched.val.headers :
           /\ n \in DOMAIN call[t].response.headers
           /\ call[t].response.headers[n] = call[t].fetched.val.headers[n]
    /\ call[t].policy = new_policy(call[t].req, call[t].response, call[t].clock)

WriteFailed(t) ==
    /\ call[t].name = "run" /\ call[t].stage = "store"
    /\ call[t].response # Unit
    /\ pc[t] \in {"resumed", "done"}
    /\ reply[t].tag = "Err"

Complete(req, f) ==
    \E o \in NetOutcomes(req) :
        /\ o.tag = "Ok" /\ o.body_ok
        /\ o.val.status = f.status /\ o.val.body = f.body
        /\ {o.val.headers[i][1] : i \in DOMAIN o.val.headers} = DOMAIN f.headers

\* C13: an insert is sent for a run only after its fetch has returned a whole
\* response, and it holds that response (after "not modified", the merged
\* entry); and every step that changes the table applies the insert of such a
\* run, so a run that was cancelled or has failed before that has changed
\* nothing.
C13_WriteAfterComplete ==
    [][/\ \A i \in DOMAIN queue' :
             queue'[i].kind = "write" =>
                LET c == call'[queue'[i].task]
                IN  /\ c.stage = "store" /\ c.fetched # Unit
                    /\ c.fetched.tag = "Ok"
                    /\ Complete(c.req, c.fetched.val)
                    /\ c.response = IF c.cond /\ c.fetched.val.status = 304
                                    THEN merge(c.stored.val.response,
                                               c.fetched.val)
                                    ELSE c.fetched.val
                    /\ queue'[i].bytes
                          \in serialize(Store(c.response, c.policy))
       /\ table' # table =>
             /\ queue # <<>> /\ Head(queue).kind = "write"
             /\ call[Head(queue).task].fetched.tag = "Ok"
       /\ \A t \in Tasks :
             (call[t].name = "run"
              /\ (call[t].fetched = Unit \/ call[t].fetched.tag = "Err"))
             => (table' # table => Head(queue).task # t)]_vars

\* One run was cancelled while its fetch was under way, after it had found
\* the stored entry, and that entry is still what a get gives; the other run
\* has fetched and written.
C13_Witness ==
    \E t, u \in Tasks :
        /\ pc[t] = "cancelled" /\ call[t].net = 1 /\ call[t].fetched = Unit
        /\ call[t].stored # None
        /\ Wrote(u) /\ call[u].key = call[t].key

\* The run of t has gone to remote_fetch and has come back with the error of
\* clone_req.
CloneFailed(t) ==
    /\ RunDone(t) /\ call[t].stage = "fetch" /\ call[t].fetched = Unit
    /\ ret[t] = Err("Middleware:BadRequest")

\* The run of t has ended without remote_fetch: it has served the stored
\* entry, or it has failed with CacheMiss in mode OnlyIfCached.
NoFetchNeeded(t) ==
    \/ /\ call[t].stored # None
       /\ ret[t] = Ok(AsResponse(call[t].stored.val.response))
       /\ \/ mode \in {"ForceCache", "IgnoreRules", "OnlyIfCached"}
          \/ mode = "Default" /\ call[t].fresh
    \/ /\ call[t].stored = None /\ mode = "OnlyIfCached"
       /\ ret[t] = Err("Middleware:CacheMiss")

\* C14: for a request that cannot be cloned next.run is never called, so
\* nothing is sent, with or without a body; and a run of such a request that
\* goes to the network returns the error of clone_req to the caller: it ends
\* with that error unless it needed no fetch at all.
C14_CloneTerminal ==
    \A t \in Tasks :
        (call[t].name = "run" /\ ~call[t].req.clonable)
        => /\ call[t].net = 0
           /\ pc[t] # "fetching"
           /\ call[t].fetched = Unit
           /\ call[t].response = Unit
           /\ RunDone(t) => CloneFailed(t) \/ NoFetchNeeded(t)

\* A GET that cannot be cloned has found a stale entry in mode Default, has
\* gone on to revalidate it, and has ended with the error of clone_req and
\* no network call.
C14_Witness ==
    \E t \in Tasks :
        /\ CloneFailed(t) /\ ~call[t].req.clonable
        /\ call[t].req.method = "GET" /\ mode = "Default"
        /\ call[t].stored # None /\ ~call[t].fresh /\ call[t].cond
        /\ call[t].net = 0

\* C15: after update_headers has applied parts to a request, every name of
\* parts has on the request exactly one value, the one parts gives it (the
\* last one, should parts give the name several); every other header of the
\* request has exactly the values it had, in their order; no other name has
\* appeared; and the rest of the request is as it was.
C15_UpdateHeaders ==
    \A t \in Tasks :
        (pc[t] = "done" /\ call[t].name = "update_headers")
        => LET h == call[t].parts
               old == call[t].was
               new == call[t].req
           IN  /\ DOMAIN new.headers = DOMAIN old.headers \cup DOMAIN h
               /\ \A n \in DOMAIN h : new.headers[n] = <<h[n][Len(h[n])]>>
               /\ \A n \in DOMAIN h : Len(h[n]) = 1 => new.headers[n] = h[n]
               /\ \A n \in DOMAIN old.headers \ DOMAIN h :
                      new.headers[n] = old.headers[n]
               /\ new = [old EXCEPT !.headers = new.headers]
               /\ ret[t] = Ok(Unit)

\* update_headers has overwritten the two values of a name with the one
\* value of parts, has added a name the request did not have, and has left a
\* header of two values alone.
C15_Witness ==
    \E t \in Tasks :
        /\ pc[t] = "done" /\ call[t].name = "update_headers"
        /\ call[t].parts = [n \in {"if-none-match", "cache-control"} |-> <<"v1">>]
        /\ call[t].was.headers
              = [n \in {"accept", "if-none-match"} |-> <<"v0", "v2">>]
        /\ call[t].req.headers["if-none-match"] = <<"v1">>
        /\ call[t].req.headers["cache-control"] = <<"v1">>
        /\ call[t].req.headers["accept"] = <<"v0", "v2">>

\* C16 as stated: every (name, value) pair of the headers of a response that
\* the network returned is among the headers of the HttpResponse that
\* remote_fetch made of it.
C16_Original ==
    \A t \in Tasks :
        (call[t].name = "run" /\ call[t].fetched # Unit
         /\ call[t].fetched.tag = "Ok")
        => \A i \in DOMAIN call[t].res.val.headers :
              LET h == call[t].res.val.headers[i]
              IN  /\ h[1] \in DOMAIN call[t].fetched.val.headers
                  /\ call[t].fetched.val.headers[h[1]] = h[2]

\* The run of t, in mode NoCache, has found an entry under its key.
NoCacheHit(t) == RunDone(t) /\ mode = "NoCache" /\ call[t].stored # None

\* C17 as stated: a run in mode NoCache that finds an entry makes a network
\* call before it returns, and returns the stored response only after one.
C17_Original ==
    \A t \in Tasks :
        NoCacheHit(t) => call[t].net >= 1 /\ call[t].fetched # Unit

\* C17: a run in mode NoCache that finds an entry, fresh or not, never
\* returns a response without a network call; if its request can be cloned
\* it makes exactly one call, a conditional one that carries the validator
\* of the entry and cache-control: no-cache; if the request cannot be cloned
\* it makes no call and returns the clone error, not the stored response.
C17_NoCache ==
    \A t \in Tasks :
        NoCacheHit(t)
        => /\ ret[t].tag = "Ok" => call[t].net = 1 /\ call[t].fetched.tag = "Ok"
           /\ call[t].cond
           /\ call[t].req.headers
                 = [n \in {"if-none-match", "cache-control"} |->
                       IF n = "cache-control" THEN <<"no-cache">> ELSE <<"v1">>]
           /\ call[t].req.clonable =>
                 call[t].net = 1 /\ call[t].fetched # Unit
           /\ ~call[t].req.clonable =>
                 call[t].net = 0 /\ ret[t] = Err("Middleware:BadRequest")

\* A run in mode NoCache has found a fresh entry, has made one network call,
\* was answered "not modified" and has returned the stored body.
C17_Witness ==
    \E t \in Tasks :
        /\ NoCacheHit(t) /\ call[t].fresh
        /\ is_fresh(call[t].stored.val.policy, now)
        /\ call[t].net = 1 /\ Revalidated(t)
        /\ ret[t].tag = "Ok"
        /\ ret[t].val.body = call[t].stored.val.response.body

\* The run of t, in mode Reload, is that of a GET or HEAD request.
ReloadRun(t) ==
    /\ call[t].name = "run" /\ mode = "Reload"
    /\ is_method_get_head(call[t].req)

\* C18 as stated: a run of a GET or HEAD request in mode Reload makes a
\* network call, and writes the fetched response when the oracle says it may
\* be stored.
C18_Original ==
    \A t \in Tasks :
        (RunDone(t) /\ ReloadRun(t))
        => /\ call[t].net >= 1
           /\ Storable(t) => call[t].response = call[t].fetched.val

\* C18: a run of a GET or HEAD request in mode Reload, whether or not it
\* finds an entry and whether or not that entry is fresh, makes exactly one
\* network call if its request can be cloned, a plain one with the headers
\* of the request as they were; a storable response is handed to put and,
\* once the insert is applied without error, a get of the key gives the
\* fetched response and its policy; the run returns the fetched response.  A
\* request that cannot be cloned makes no call and ends with the clone error.
C18_Reload ==
    [][\A t \in Tasks :
          /\ (ReloadRun(t) /\ call[t].stage = "store"
               /\ pc[t] = "awaiting" /\ pc'[t] = "resumed"
               /\ reply'[t].tag = "Ok")
             => /\ call[t].response = call[t].fetched.val
                /\ GetOn(table', call[t].key)
                      = Ok(Some(<<call[t].fetched.val, call[t].policy>>))
          /\ (ReloadRun(t) /\ pc[t] # "done" /\ pc'[t] = "done")
             => /\ ~call'[t].cond
                /\ call'[t].req.headers = NoHeaders
                /\ call'[t].req.clonable =>
                      /\ call'[t].net = 1 /\ call'[t].fetched # Unit
                      /\ call'[t].fetched.tag = "Ok" =>
                            /\ ret'[t] = Ok(AsResponse(call'[t].fetched.val))
                            /\ Storable(t)' =>
                                  call'[t].response = call'[t].fetched.val
                /\ ~call'[t].req.clonable =>
                      /\ call'[t].net = 0
                      /\ ret'[t] = Err("Middleware:BadRequest")]_vars

\* A run in mode Reload has found a fresh entry, has fetched all the same,
\* and the response it fetched and returned is what a get of the key gives.
C18_Witness ==
    \E t \in Tasks :
        /\ RunDone(t) /\ ReloadRun(t)
        /\ call[t].stored # None /\ call[t].fresh
        /\ call[t].net = 1 /\ Storable(t) /\ reply[t].tag = "Ok"
        /\ GetOn(table, call[t].key)
              = Ok(Some(<<call[t].fetched.val, call[t].policy>>))
        /\ ret[t] = Ok(AsResponse(call[t].fetched.val))
        /\ call[t].fetched.val.body # <<>>

\* The connection thread runs the closure c in this step.
Applies(c) == queue # <<>> /\ c = Head(queue) /\ queue' = Tail(queue)

\* C19: two (method, URL) pairs have the same key exactly when they are the
\* same pair; the closure of a put or a delete carries the key of its pair;
\* and what a get of a pair gives, and the rows of its key, change only when
\* the insert of a put or the statement of a delete on that same pair is
\* applied, or a clear: a put or a delete on another pair leaves them as they
\* are.
C19_KeyIsolation ==
    [][/\ \A x, y \in Methods \X Urls :
             req_key(x[1], x[2]) = req_key(y[1], y[2]) <=> x = y
       /\ \A i \in DOMAIN queue' :
             queue'[i].kind \in {"write", "delete"} =>
                 queue'[i].key = call'[queue'[i].task].key
       /\ table' # table =>
             \A x \in Methods \X Urls :
                 LET k == req_key(x[1], x[2])
                 IN  (\/ GetOn(table', k) # GetOn(table, k)
                      \/ RowsOf(table', k) # RowsOf(table, k))
                     => /\ queue # <<>> /\ queue' = Tail(queue)
                        /\ \/ Head(queue).kind = "clear"
                           \/ /\ Head(queue).kind \in {"write", "delete"}
                              /\ Head(queue).key = k]_vars

\* Two pairs of one URL and two methods hold different entries, each the one
\* put on it, after a put and a delete on one of them that came later than
\* the put on the other.
C19_Witness ==
    LET ga == req_key("GET", "https://example.test/a")
        pa == req_key("POST", "https://example.test/a")
    IN  /\ pc["t1"] = "done" /\ call["t1"].name = "put" /\ call["t1"].key = pa
        /\ lastPut[ga].tag = "Some" /\ lastPut[pa].tag = "Some"
        /\ lastPut[ga].val # lastPut[pa].val
        /\ GetOn(table, ga) = Ok(Some(Pair(lastPut[ga].val)))
        /\ GetOn(table, pa) = Ok(Some(Pair(lastPut[pa].val)))
        /\ \E r \in RowsOf(table, pa) : r.id = 3

\* C20: the closure of a get leaves the table and the row ids as they are,
\* whatever the key holds; on a row whose blob cannot be deserialized it
\* answers None and the row stays; and such a row goes away only when an
\* insert or a delete on its key, or a clear, is applied.
C20_GetReadOnly ==
    [][/\ (queue # <<>> /\ Applies(Head(queue))
               /\ Head(queue).kind = "read") =>
             LET t == Head(queue).task
                 k == Head(queue).key
             IN  /\ table' = table /\ sqlite_seq' = sqlite_seq
                 /\ Undeserializable(table, k) =>
                       /\ Undeserializable(table', k)
                       /\ call[t].name = "get" => ret'[t] = Ok(None)
       /\ table' # table =>
             \A k \in Keys :
                 (Undeserializable(table, k) /\ ~Undeserializable(table', k))
                 => /\ queue # <<>> /\ queue' = Tail(queue)
                    /\ \/ Head(queue).kind = "clear"
                       \/ /\ Head(queue).kind \in {"write", "delete"}
                          /\ Head(queue).key = k]_vars

\* Both tasks have called get on a key whose row holds a broken blob, both
\* were answered None, and the row is still the one that was there.
C20_Witness ==
    /\ \A t \in Tasks :
          pc[t] = "done" /\ call[t].name = "get" /\ ret[t] = Ok(None)
    /\ call["t1"].key = call["t2"].key
    /\ Undeserializable(table, call["t1"].key)
    /\ \E r \in RowsOf(table, call["t1"].key) : r.id = 1

====
